---- MODULE Spec2Model ----
(***************************************************************************)
(* Venda Hoje checkout API (src/api/app.py): a Flask gateway in front of   *)
(* the GhostPay PIX processor.  The model follows one request at a time    *)
(* through create_payment and check_payment; requests share no state other *)
(* than the configuration read at start-up.                                *)
(*                                                                         *)
(* JSON values are records [t, s, n]: t is the JSON type, s the characters *)
(* of a string (a sequence of one-character strings), n the number.        *)
(* Message literals are written without diacritics.                        *)
(***************************************************************************)
EXTENDS Integers, Sequences, FiniteSets, TLC

VARIABLES basic_auth, pc, req, calls, resp, responses, escaped, upstream

vars == <<basic_auth, pc, req, calls, resp, responses, escaped, upstream>>

-----------------------------------------------------------------------------
(* Bounds *)

MaxDocLen == 2

(* Program constants *)

PRODUCT_PRICE == 890

MIN_AMOUNT == 100

DETAILS_LIMIT == 200

-----------------------------------------------------------------------------
(* JSON values as Python sees them *)

Absent == [t |-> "absent", s |-> <<>>, n |-> 0]

Null == [t |-> "null", s |-> <<>>, n |-> 0]

Str(chars) == [t |-> "str", s |-> chars, n |-> 0]

Num(k) == [t |-> "num", s |-> <<>>, n |-> k]

\* a non-empty JSON array: truthy, neither a string nor a number nor an object
List == [t |-> "list", s |-> <<>>, n |-> 0]

\* bool(v) in Python
Truthy(v) ==
    CASE v.t = "absent" -> FALSE
      [] v.t = "null" -> FALSE
      [] v.t = "str" -> Len(v.s) > 0
      [] v.t = "num" -> v.n # 0
      [] OTHER -> TRUE

\* d.get(key): a missing key reads as None
Get(v) == IF v.t = "absent" THEN Null ELSE v

\* d.get(key, default)
GetDefault(v, default) == IF v.t = "absent" THEN default ELSE v

\* a or b
Or(a, b) == IF Truthy(a) THEN a ELSE b

DigitChars == {"0", "1", "2", "3", "4", "5", "6", "7", "8", "9"}

IsDigit(c) == c \in DigitChars

RECURSIVE Decimal(_)
\* str(k) for a natural number k
Decimal(k) ==
    LET d == <<"0", "1", "2", "3", "4", "5", "6", "7", "8", "9">>[(k % 10) + 1]
    IN  IF k < 10 THEN <<d>> ELSE Append(Decimal(k \div 10), d)

StartsWith(s, p) == Len(s) >= Len(p) /\ SubSeq(s, 1, Len(p)) = p

Min(a, b) == IF a < b THEN a ELSE b

-----------------------------------------------------------------------------
(* Configuration *)

\* values of the GHOSTPAY_SECRET_KEY environment variable
SecretKeys == {Absent, Str(<<>>), Str(<<"s", "k">>)}

None == Null

\* base64 of "<key>:" is kept symbolic; it is never empty
BasicAuth(key) ==
    IF Truthy(key) THEN Str(<<"b", "6", "4", "(">> \o key.s \o <<":", ")">>) ELSE None

PLACEHOLDER_DOCUMENT == <<"0", "0", "0", "0", "0", "0", "0", "0", "1", "9", "1">>

DEFAULT_PHONE == <<"1", "1", "9", "9", "9", "9", "9", "9", "9", "9", "9">>

PRODUCT_NAME == <<"M", "e", "n", "t", "o", "r", "i", "a">>

TEST_QR_CODE == <<"0", "0", "0", "2", "0", "1", "p", "i", "x">>

TestPrefix == <<"t", "e", "s", "t", "_">>

RefPrefix == <<"v", "e", "n", "d", "a", "-", "h", "o", "j", "e", "-">>

-----------------------------------------------------------------------------
(* Requests *)

Chars(n, alphabet) == UNION {[1..k -> alphabet] : k \in 0..n}

DocChars == {"1", "9", "."}

Ana == <<"A", "n", "a">>

Mail == <<"a", "@", "x">>

Names == {Absent, Str(<<>>), Str(Ana)}

Emails == {Absent, Null, Str(<<>>), Str(Mail)}

Phones == {Absent, Str(<<"1", "1">>)}

\* absent, null, a JSON number, or a string of at most MaxDocLen characters
Documents == {Absent, Null, Num(5)} \cup {Str(d) : d \in Chars(MaxDocLen, DocChars)}

\* absent, null, a string, or an integer
Amounts == {Absent, Null, Str(<<"9">>)} \cup {Num(k) : k \in {-5, 0, 99, 100, 890, 5000}}

Descriptions == {Absent, Str(<<"d">>)}

NoCustomer == [t |-> "absent", name |-> Absent, email |-> Absent, phone |-> Absent,
               document |-> Absent]

\* the value under "customer": missing, null, a string, or an object
Customers ==
    {NoCustomer, [NoCustomer EXCEPT !.t = "null"], [NoCustomer EXCEPT !.t = "str"]}
    \cup [t : {"obj"}, name : Names, email : Emails, phone : Phones, document : Documents]

NoBody == [kind |-> "null", contains |-> FALSE, customer |-> NoCustomer,
           amount |-> Absent, description |-> Absent]

\* what request.get_json() meets: a body it cannot parse, null, a falsy value
\* ({} [] "" 0 false), a number, a string or an array (with or without the
\* text/element "customer"), or a non-empty object
Bodies ==
    {[NoBody EXCEPT !.kind = k] : k \in {"unparsable", "null", "falsy", "number"}}
    \cup {[NoBody EXCEPT !.kind = k, !.contains = c] : k \in {"string", "list"}, c \in BOOLEAN}
    \cup {b \in [kind : {"object"}, contains : {FALSE}, customer : Customers,
                 amount : Amounts, description : Descriptions] :
            \/ b.customer.t # "absent"
            \/ b.amount.t # "absent"
            \/ b.description.t # "absent"}

TransactionIds == {<<"a", "b", "c">>, <<"t", "e", "s", "t", "_", "1">>}

NoRequest == [route |-> "none", method |-> "GET", body |-> NoBody, transaction_id |-> <<>>]

Requests ==
    {[NoRequest EXCEPT !.route = "create-payment", !.method = "POST", !.body = b] : b \in Bodies}
    \cup {[NoRequest EXCEPT !.route = "create-payment", !.method = "OPTIONS"]}
    \cup {[NoRequest EXCEPT !.route = "check-payment", !.method = m, !.transaction_id = i] :
            m \in {"GET", "OPTIONS"}, i \in TransactionIds}

\* int(time.time())
Times == {9, 10}

-----------------------------------------------------------------------------
(* Responses of this service *)

BaseResponse ==
    [http |-> 200, json |-> TRUE, error |-> FALSE, success |-> FALSE, test_mode |-> FALSE,
     message |-> <<>>, has_details |-> FALSE, details |-> <<>>,
     tx_id |-> Absent, tx_status |-> Absent, tx_amount |-> Absent,
     qr_code |-> Absent, code |-> Absent, copy_paste |-> Absent,
     status |-> Absent, paid_at |-> Absent, transaction |-> "none"]

\* return '', 200
OptionsResponse == [BaseResponse EXCEPT !.json = FALSE]

\* jsonify({"error": True, "message": message}), http
ErrorResponse(http, message) ==
    [BaseResponse EXCEPT !.http = http, !.error = TRUE, !.message = message]

NoPayload ==
    [paymentMethod |-> "", name |-> Absent, email |-> Absent, phone |-> Absent,
     document_number |-> Absent, document_type |-> "", title |-> <<>>,
     unitPrice |-> Absent, quantity |-> 0, externalRef |-> <<>>, amount |-> Absent,
     description |-> Absent, expiresInDays |-> 0]

\* how a piece of handler code ends: it returns a response, raises, or has
\* built the payload and goes on to call the processor
Return(r) == [kind |-> "return", exc |-> "", resp |-> r, payload |-> NoPayload]

Raise(e) == [kind |-> "raise", exc |-> e, resp |-> BaseResponse, payload |-> NoPayload]

Forward(p) == [kind |-> "forward", exc |-> "", resp |-> BaseResponse, payload |-> p]

-----------------------------------------------------------------------------
(* Helpers of app.py *)

TypeError == [t |-> "TypeError", s |-> <<>>, n |-> 0]

\* re.sub(r'\D', '', document) for a truthy document; re.sub raises
\* TypeError on a value that is not a string
clean_document(document) ==
    IF Truthy(document)
    THEN IF document.t = "str" THEN Str(SelectSeq(document.s, IsDigit)) ELSE TypeError
    ELSE Str(PLACEHOLDER_DOCUMENT)

create_test_qr_code == Str(TEST_QR_CODE)

\* the synthetic response stating the price in reais
TestPaymentResponse_Reais(t) ==
    [BaseResponse EXCEPT !.success = TRUE, !.test_mode = TRUE,
                         !.message = <<"Modo de teste - Configure as chaves no Render">>,
                         !.tx_id = Str(TestPrefix \o Decimal(t)),
                         !.tx_status = Str(<<"p", "e", "n", "d", "i", "n", "g">>),
                         !.tx_amount = Num(PRODUCT_PRICE \div 100),
                         !.qr_code = create_test_qr_code,
                         !.code = create_test_qr_code,
                         !.copy_paste = create_test_qr_code]

\* the synthetic response of create_payment when basic_auth is not set
TestPaymentResponse(t) ==
    [BaseResponse EXCEPT !.success = TRUE, !.test_mode = TRUE,
                         !.message = <<"Modo de teste - Configure as chaves no Render">>,
                         !.tx_id = Str(TestPrefix \o Decimal(t)),
                         !.tx_status = Str(<<"p", "e", "n", "d", "i", "n", "g">>),
                         !.tx_amount = Num(PRODUCT_PRICE),
                         !.qr_code = create_test_qr_code,
                         !.code = create_test_qr_code,
                         !.copy_paste = create_test_qr_code]

\* the check forgetting the email
MissingNameOrEmail_NameOnly(customer) == ~Truthy(Get(customer.name))

\* not customer.get('name') or not customer.get('email')
MissingNameOrEmail(customer) ==
    ~Truthy(Get(customer.name)) \/ ~Truthy(Get(customer.email))

\* the minimum compared with zero
BelowMinimum_Zero(amount) == amount.n <= 0

\* amount < 100, for a number
BelowMinimum(amount) == amount.n < MIN_AMOUNT

\* the payload with the line item priced at the product price
Payload_FixedPrice(data, customer, amount, number, t) ==
    [paymentMethod |-> "PIX",
     name |-> GetDefault(customer.name, Str(<<"C", "l", "i", "e", "n", "t", "e">>)),
     email |-> GetDefault(customer.email, Str(<<"s", "u", "p", "o", "r", "t", "e">>)),
     phone |-> GetDefault(customer.phone, Str(DEFAULT_PHONE)),
     document_number |-> number,
     document_type |-> "CPF",
     title |-> PRODUCT_NAME,
     unitPrice |-> Num(PRODUCT_PRICE),
     quantity |-> 1,
     externalRef |-> RefPrefix \o Decimal(t),
     amount |-> amount,
     description |-> GetDefault(data.description, Str(PRODUCT_NAME)),
     expiresInDays |-> 1]

\* the payload sent to GhostPay; number is the cleaned document
Payload(data, customer, amount, number, t) ==
    [paymentMethod |-> "PIX",
     name |-> GetDefault(customer.name, Str(<<"C", "l", "i", "e", "n", "t", "e">>)),
     email |-> GetDefault(customer.email, Str(<<"s", "u", "p", "o", "r", "t", "e">>)),
     phone |-> GetDefault(customer.phone, Str(DEFAULT_PHONE)),
     document_number |-> number,
     document_type |-> "CPF",
     title |-> PRODUCT_NAME,
     unitPrice |-> amount,
     quantity |-> 1,
     externalRef |-> RefPrefix \o Decimal(t),
     amount |-> amount,
     description |-> GetDefault(data.description, Str(PRODUCT_NAME)),
     expiresInDays |-> 1]

\* 'customer' in data
HasCustomer(data) ==
    IF data.kind = "object" THEN data.customer.t # "absent" ELSE data.contains

\* the validation and the payload of create_payment, for a body that is a
\* non-empty JSON object
ValidateObject(data, t) ==
    IF ~HasCustomer(data)
    THEN Return(ErrorResponse(400, <<"Estrutura de dados invalida">>))
    ELSE LET customer == data.customer
             amount == GetDefault(data.amount, Num(PRODUCT_PRICE))
         IN  IF customer.t # "obj" THEN Raise("AttributeError")
             ELSE IF MissingNameOrEmail(customer)
             THEN Return(ErrorResponse(400, <<"Nome e email sao obrigatorios">>))
             ELSE IF amount.t # "num" THEN Raise("TypeError")
             ELSE IF BelowMinimum(amount)
             THEN Return(ErrorResponse(400, <<"Valor minimo e R$ 1,00">>))
             ELSE LET number == clean_document(Get(customer.document))
                  IN  IF number = TypeError THEN Raise("TypeError")
                      ELSE Forward(Payload(data, customer, amount, number, t))

\* create_payment reading the body before it looks at basic_auth
TryCreatePayment_BodyFirst(auth, data, t) ==
    IF data.kind = "unparsable" THEN Raise("BadRequest")
    ELSE IF data.kind \in {"null", "falsy"}
    THEN Return(ErrorResponse(400, <<"Dados nao recebidos">>))
    ELSE IF ~Truthy(auth) THEN Return(TestPaymentResponse(t))
    ELSE IF data.kind = "number" THEN Raise("TypeError")
    ELSE IF data.kind \in {"string", "list"}
    THEN IF HasCustomer(data) THEN Raise("TypeError")
         ELSE Return(ErrorResponse(400, <<"Estrutura de dados invalida">>))
    ELSE ValidateObject(data, t)

\* the body of the try block of create_payment up to requests.post
TryCreatePayment(auth, data, t) ==
    IF ~Truthy(auth) THEN Return(TestPaymentResponse(t))
    ELSE IF data.kind = "unparsable" THEN Raise("BadRequest")
    ELSE IF data.kind \in {"null", "falsy"}
    THEN Return(ErrorResponse(400, <<"Dados nao recebidos">>))
    ELSE IF data.kind = "number" THEN Raise("TypeError")
    ELSE IF data.kind \in {"string", "list"}
    THEN IF HasCustomer(data) THEN Raise("TypeError")
         ELSE Return(ErrorResponse(400, <<"Estrutura de dados invalida">>))
    ELSE ValidateObject(data, t)

\* create_payment without its exception handler
ExceptCreate_Missing(outcome) == outcome

\* except Exception as e, in create_payment
ExceptCreate(outcome) ==
    IF outcome.kind = "raise"
    THEN Return(ErrorResponse(500, <<"Erro interno: ", outcome.exc>>))
    ELSE outcome

\* except Exception as e, in check_payment
ExceptCheck(outcome) ==
    IF outcome.kind = "raise"
    THEN Return(ErrorResponse(500, <<"Erro: ", outcome.exc>>))
    ELSE outcome

-----------------------------------------------------------------------------
(* Answers of the processor *)

TextChars == <<"e", "r", "o">>

\* a raw body of n characters
Text(n) == [i \in 1..n |-> TextChars[(i % 3) + 1]]

TextLens == {0, 3, DETAILS_LIMIT, DETAILS_LIMIT + 5}

NoPix == [t |-> "absent", qrcode |-> Absent, qrCode |-> Absent, text |-> Absent]

Q1 == Str(<<"Q", "1">>)

Q2 == Str(<<"Q", "2">>)

Q3 == Str(<<"Q", "3">>)

\* the value under "pix": missing, null, or an object
Pixes ==
    {NoPix, [NoPix EXCEPT !.t = "null"]}
    \cup [t : {"obj"}, qrcode : {Absent, Str(<<>>), Q1}, qrCode : {Absent, Q2},
          text : {Absent, Str(<<>>), Q3}]

Paid == Str(<<"p", "a", "i", "d">>)

Pending == Str(<<"p", "e", "n", "d", "i", "n", "g">>)

\* raises: requests.post / requests.get raised (timeout, connection failure);
\* json: what response.json() does (raises, returns a non-object, returns an
\* object with the fields below)
NoAnswer ==
    [raises |-> FALSE, status_code |-> 0, text |-> <<>>, json |-> "malformed",
     pix |-> NoPix, id |-> Absent, status |-> Absent, amount |-> Absent, paidAt |-> Absent]

CreateAnswers ==
    {[NoAnswer EXCEPT !.raises = TRUE]}
    \cup {[NoAnswer EXCEPT !.status_code = c, !.text = Text(n)] :
            c \in {202, 400, 500}, n \in TextLens}
    \cup {[NoAnswer EXCEPT !.status_code = c, !.text = Text(3), !.json = j] :
            c \in {200, 201}, j \in {"malformed", "nonobject"}}
    \cup {[NoAnswer EXCEPT !.status_code = c, !.text = Text(3), !.json = "object",
                           !.pix = p, !.id = i, !.status = Pending,
                           !.amount = Num(PRODUCT_PRICE)] :
            c \in {200, 201}, p \in Pixes, i \in {Absent, Str(<<"t", "x">>)}}

CheckAnswers ==
    {[NoAnswer EXCEPT !.raises = TRUE]}
    \cup {[NoAnswer EXCEPT !.status_code = c, !.text = Text(n)] :
            c \in {201, 404, 500}, n \in {0, 3}}
    \cup {[NoAnswer EXCEPT !.status_code = 200, !.text = Text(3), !.json = j] :
            j \in {"malformed", "nonobject"}}
    \cup {[NoAnswer EXCEPT !.status_code = 200, !.text = Text(3), !.json = "object",
                           !.status = st, !.paidAt = pa] :
            st \in {Absent, Paid, Pending}, pa \in {Absent, Str(<<"2", "0">>)}}

-----------------------------------------------------------------------------
(* create_payment after requests.post, check_payment after requests.get *)

\* the lookup trying qrCode first
QrCode_Swapped(pix_data) ==
    Or(Get(pix_data.qrCode), Or(Get(pix_data.qrcode), Get(pix_data.text)))

\* pix_data.get('qrcode') or pix_data.get('qrCode') or pix_data.get('text')
QrCode(pix_data) ==
    Or(Get(pix_data.qrcode), Or(Get(pix_data.qrCode), Get(pix_data.text)))

\* the details without the truncation
Details_Whole(text) == IF Len(text) > 0 THEN text ELSE <<"Sem resposta">>

\* response.text[:200] if response.text else "Sem resposta"
Details(text) ==
    IF Len(text) > 0 THEN SubSeq(text, 1, Min(Len(text), DETAILS_LIMIT))
    ELSE <<"Sem resposta">>

\* the else branch of create_payment: the processor's status is passed on
UpstreamError(response) ==
    [ErrorResponse(response.status_code,
                   <<"Erro na API GhostPay: ", ToString(response.status_code)>>)
        EXCEPT !.has_details = TRUE, !.details = Details(response.text)]

\* the 200/201 branch of create_payment
Normalize(response) ==
    IF response.json = "malformed" THEN Raise("JSONDecodeError")
    ELSE IF response.json = "nonobject" THEN Raise("AttributeError")
    ELSE IF response.pix.t = "null" THEN Raise("AttributeError")
    ELSE LET qr_code == QrCode(response.pix)
         IN  IF Truthy(qr_code)
             THEN Return([BaseResponse EXCEPT !.success = TRUE,
                                             !.tx_id = Get(response.id),
                                             !.tx_status = Get(response.status),
                                             !.tx_amount = Get(response.amount),
                                             !.qr_code = qr_code,
                                             !.code = qr_code,
                                             !.copy_paste = qr_code])
             ELSE Return(ErrorResponse(500, <<"QR Code nao recebido">>))

\* the try block of create_payment from requests.post on
AfterPost(response) ==
    IF response.raises THEN Raise("RequestException")
    ELSE IF response.status_code \in {200, 201} THEN Normalize(response)
    ELSE Return(UpstreamError(response))

\* the try block of check_payment up to requests.get
TryCheckPayment(auth) ==
    IF ~Truthy(auth)
    THEN Return([BaseResponse EXCEPT !.success = TRUE, !.test_mode = TRUE,
                                     !.status = Paid,
                                     !.message = <<"Modo de teste - Pagamento simulado">>])
    ELSE Forward(NoPayload)

\* check_payment accepting 201 as create_payment does
AfterGet_Created(response) ==
    IF response.raises THEN Raise("RequestException")
    ELSE IF response.status_code \in {200, 201}
    THEN IF response.json = "malformed" THEN Raise("JSONDecodeError")
         ELSE IF response.json = "nonobject" THEN Raise("AttributeError")
         ELSE Return([BaseResponse EXCEPT !.success = TRUE,
                                          !.status = Get(response.status),
                                          !.paid_at = Get(response.paidAt),
                                          !.transaction = "data"])
    ELSE Return(ErrorResponse(404, <<"Transacao nao encontrada">>))

\* the try block of check_payment from requests.get on
AfterGet(response) ==
    IF response.raises THEN Raise("RequestException")
    ELSE IF response.status_code = 200
    THEN IF response.json = "malformed" THEN Raise("JSONDecodeError")
         ELSE IF response.json = "nonobject" THEN Raise("AttributeError")
         ELSE Return([BaseResponse EXCEPT !.success = TRUE,
                                          !.status = Get(response.status),
                                          !.paid_at = Get(response.paidAt),
                                          !.transaction = "data"])
    ELSE Return(ErrorResponse(404, <<"Transacao nao encontrada">>))

-----------------------------------------------------------------------------
(* The service *)

Init ==
    /\ \E key \in SecretKeys : basic_auth = BasicAuth(key)
    /\ pc = "idle"
    /\ req = NoRequest
    /\ calls = <<>>
    /\ resp = BaseResponse
    /\ responses = 0
    /\ escaped = FALSE
    /\ upstream = NoAnswer

\* a request arrives at the idle worker
Receive ==
    /\ pc = "idle"
    /\ \E r \in Requests : req' = r
    /\ pc' = "received"
    /\ UNCHANGED <<basic_auth, calls, resp, responses, escaped, upstream>>

\* the request is over and the worker waits for the next one; nothing of the
\* request is kept
Release ==
    /\ pc = "done"
    /\ pc' = "idle"
    /\ req' = NoRequest
    /\ calls' = <<>>
    /\ resp' = BaseResponse
    /\ responses' = 0
    /\ escaped' = FALSE
    /\ upstream' = NoAnswer
    /\ UNCHANGED basic_auth

\* the handler ends: with a response, or with an exception leaving it
Finish(outcome) ==
    /\ pc' = "done"
    /\ IF outcome.kind = "return"
       THEN resp' = outcome.resp /\ responses' = responses + 1 /\ escaped' = escaped
       ELSE resp' = resp /\ responses' = responses /\ escaped' = TRUE

\* create_payment up to the call of the processor; t is the clock
CreatePayment ==
    /\ pc = "received"
    /\ req.route = "create-payment"
    /\ \E t \in Times :
        LET outcome == IF req.method = "OPTIONS" THEN Return(OptionsResponse)
                       ELSE ExceptCreate(TryCreatePayment(basic_auth, req.body, t))
        IN  IF outcome.kind = "forward"
            THEN /\ calls' = Append(calls, [method |-> "POST", id |-> <<>>,
                                            payload |-> outcome.payload])
                 /\ pc' = "post_sent"
                 /\ UNCHANGED <<resp, responses, escaped>>
            ELSE Finish(outcome) /\ UNCHANGED calls
    /\ UNCHANGED <<basic_auth, req, upstream>>

\* requests.post returns or raises, and create_payment runs to its end
CreatePaymentAnswer ==
    /\ pc = "post_sent"
    /\ \E response \in CreateAnswers :
        /\ upstream' = response
        /\ Finish(ExceptCreate(AfterPost(response)))
    /\ UNCHANGED <<basic_auth, req, calls>>

\* check_payment up to the call of the processor
CheckPayment ==
    /\ pc = "received"
    /\ req.route = "check-payment"
    /\ LET outcome == IF req.method = "OPTIONS" THEN Return(OptionsResponse)
                      ELSE ExceptCheck(TryCheckPayment(basic_auth))
       IN  IF outcome.kind = "forward"
           THEN /\ calls' = Append(calls, [method |-> "GET", id |-> req.transaction_id,
                                           payload |-> NoPayload])
                /\ pc' = "get_sent"
                /\ UNCHANGED <<resp, responses, escaped>>
           ELSE Finish(outcome) /\ UNCHANGED calls
    /\ UNCHANGED <<basic_auth, req, upstream>>

\* requests.get returns or raises, and check_payment runs to its end
CheckPaymentAnswer ==
    /\ pc = "get_sent"
    /\ \E response \in CheckAnswers :
        /\ upstream' = response
        /\ Finish(ExceptCheck(AfterGet(response)))
    /\ UNCHANGED <<basic_auth, req, calls>>

Next ==
    \/ Receive
    \/ CreatePayment
    \/ CreatePaymentAnswer
    \/ CheckPayment
    \/ CheckPaymentAnswer
    \/ Release

Spec == Init /\ [][Next]_vars

TypeOK ==
    /\ pc \in {"idle", "received", "post_sent", "get_sent", "done"}
    /\ req.route \in {"none", "create-payment", "check-payment"}
    /\ responses \in 0..1
    /\ escaped \in BOOLEAN
    /\ Len(calls) <= 1

-----------------------------------------------------------------------------
(* Vocabulary of the properties *)

Configured == basic_auth # None

CreatePost == req.route = "create-payment" /\ req.method = "POST"

CheckGet == req.route = "check-payment" /\ req.method = "GET"

\* absent, null or the empty string
Blank(v) == v.t \in {"absent", "null"} \/ (v.t = "str" /\ v.s = <<>>)

\* the request has no usable customer.name or customer.email
LacksNameOrEmail(body) ==
    \/ body.kind # "object"
    \/ body.customer.t # "obj"
    \/ Blank(body.customer.name)
    \/ Blank(body.customer.email)

\* reading the body or the customer raises
BodyRaises(body) ==
    \/ body.kind \in {"unparsable", "number"}
    \/ body.kind \in {"string", "list"} /\ body.contains
    \/ body.kind = "object" /\ body.customer.t \in {"null", "str"}

\* the request states a numeric amount
NumericAmount(body) == body.kind = "object" /\ body.amount.t = "num"

OnlyDigits(chars) == \A i \in 1..Len(chars) : chars[i] \in DigitChars

IsErrorResponse(r, http) == r.http = http /\ r.error /\ ~r.success /\ r.json

-----------------------------------------------------------------------------
(* C1 *)

\* C1: with basic_auth None, a POST /create-payment request never causes an
\* outbound call, whatever its body, and its response is 200 with
\* success:true, test_mode:true, status "pending" and an id starting "test_".
C1_TestModeCreate ==
    (~Configured /\ CreatePost) =>
        /\ calls = <<>>
        /\ pc # "post_sent"
        /\ pc = "done" =>
            /\ responses = 1
            /\ resp.http = 200
            /\ resp.success /\ resp.test_mode /\ ~resp.error
            /\ resp.tx_status = Pending
            /\ resp.tx_id.t = "str"
            /\ StartsWith(resp.tx_id.s, <<"t", "e", "s", "t", "_">>)

C1_Witness ==
    /\ ~Configured /\ CreatePost /\ pc = "done"
    /\ req.body.kind = "unparsable"
    /\ resp.test_mode

-----------------------------------------------------------------------------
(* C2 *)

\* C2 as stated: every POST /create-payment request missing customer.name or
\* customer.email is answered 400 with error:true.
C2_Original ==
    (CreatePost /\ pc = "done" /\ LacksNameOrEmail(req.body)) =>
        IsErrorResponse(resp, 400)

\* C2 as amended: with credentials configured, a POST /create-payment request
\* missing customer.name or customer.email makes no outbound call and gets an
\* error response: 400 when the body is null or empty, has no customer, or
\* has an object customer; 500 when reading the body or the customer raises.
C2_MissingNameOrEmail ==
    (Configured /\ CreatePost /\ LacksNameOrEmail(req.body)) =>
        /\ calls = <<>>
        /\ pc = "done" =>
            IsErrorResponse(resp, IF BodyRaises(req.body) THEN 500 ELSE 400)

C2_Witness ==
    /\ Configured /\ CreatePost /\ pc = "done"
    /\ req.body.kind = "object" /\ req.body.customer.t = "obj"
    /\ ~Blank(req.body.customer.name) /\ Blank(req.body.customer.email)
    /\ req.body.amount = Num(890)
    /\ resp.http = 400

-----------------------------------------------------------------------------
(* C3 *)

\* C3 as stated: every POST /create-payment request with an amount below 100
\* is answered 400, whatever the other fields.
C3_Original ==
    (CreatePost /\ pc = "done" /\ NumericAmount(req.body) /\ req.body.amount.n < 100) =>
        resp.http = 400

\* C3 as amended: with credentials configured, a POST /create-payment request
\* with an amount below 100 makes no outbound call and gets an error
\* response: 400 when customer is absent or an object (whatever its name and
\* email), 500 when customer is neither.
C3_AmountBelowMinimum ==
    (Configured /\ CreatePost /\ NumericAmount(req.body) /\ req.body.amount.n < 100) =>
        /\ calls = <<>>
        /\ pc = "done" =>
            IsErrorResponse(resp, IF req.body.customer.t \in {"null", "str"} THEN 500 ELSE 400)

C3_Witness ==
    /\ Configured /\ CreatePost /\ pc = "done"
    /\ req.body.kind = "object" /\ req.body.customer.t = "obj"
    /\ ~Blank(req.body.customer.name) /\ ~Blank(req.body.customer.email)
    /\ req.body.amount = Num(99)
    /\ resp.http = 400

-----------------------------------------------------------------------------
(* C4 *)

\* C4 as stated: in test mode transaction.amount is the amount of the
\* request when it carries one, and 890 when it carries none.
C4_Original ==
    (~Configured /\ CreatePost /\ pc = "done") =>
        resp.tx_amount = (IF req.body.kind = "object" /\ req.body.amount.t # "absent"
                          THEN req.body.amount ELSE Num(890))

\* C4 as amended: in test mode transaction.amount is 890, the default
\* product price, whatever amount the request carries.
C4_TestModeAmount ==
    (~Configured /\ CreatePost /\ pc = "done") => resp.tx_amount = Num(890)

C4_Witness ==
    /\ ~Configured /\ CreatePost /\ pc = "done"
    /\ req.body.kind = "object" /\ req.body.amount = Num(5000)
    /\ resp.tx_amount = Num(890)

-----------------------------------------------------------------------------
(* C5 *)

\* the first non-blank value of the three upstream fields, null when all
\* are blank
FirstNonBlank(pix) ==
    IF ~Blank(pix.qrcode) THEN pix.qrcode
    ELSE IF ~Blank(pix.qrCode) THEN pix.qrCode
    ELSE IF ~Blank(pix.text) THEN pix.text
    ELSE Null

\* C5: when the processor answers 200/201, a success response carries the
\* first non-empty of pix.qrcode, pix.qrCode, pix.text (in that order) under
\* qr_code, code and copy_paste; an object answer with such a value is a
\* success, and when all three are empty or absent the response is a 500
\* error.
C5_QrCodePriority ==
    (CreatePost /\ pc = "done" /\ calls # <<>> /\ ~upstream.raises
        /\ upstream.status_code \in {200, 201}) =>
        LET first == FirstNonBlank(upstream.pix)
        IN  /\ resp.success =>
                /\ ~Blank(first)
                /\ resp.qr_code = first /\ resp.code = first /\ resp.copy_paste = first
            /\ Blank(first) => IsErrorResponse(resp, 500)
            /\ (~Blank(first) /\ upstream.json = "object") => resp.success /\ resp.http = 200

C5_Witness ==
    /\ CreatePost /\ pc = "done" /\ calls # <<>>
    /\ upstream.status_code = 201 /\ upstream.json = "object"
    /\ upstream.pix.qrcode = Q1 /\ upstream.pix.qrCode = Q2
    /\ resp.success /\ resp.qr_code = Q1

-----------------------------------------------------------------------------
(* C6 *)

\* C6 as stated: the document number of every forwarded payload is not
\* blank, has only digits, and is left unchanged by clean_document.
C6_Original ==
    \A i \in 1..Len(calls) :
        calls[i].method = "POST" =>
            LET number == calls[i].payload.document_number
            IN  /\ number.t = "str"
                /\ number.s # <<>>
                /\ OnlyDigits(number.s)
                /\ clean_document(number) = number

-----------------------------------------------------------------------------
(* C7 *)

\* the processor answered the create call with a status other than 200/201
UpstreamRefused ==
    /\ CreatePost /\ pc = "done" /\ calls # <<>>
    /\ ~upstream.raises /\ upstream.status_code \notin {200, 201}

\* C7 as stated: on a processor status other than 200/201 the response has
\* error:true, the processor's status, and as details a prefix of at most
\* 200 characters of the processor's raw body.
C7_Original ==
    UpstreamRefused =>
        /\ IsErrorResponse(resp, upstream.status_code)
        /\ resp.has_details
        /\ Len(resp.details) <= 200
        /\ Len(resp.details) <= Len(upstream.text)
        /\ resp.details = SubSeq(upstream.text, 1, Len(resp.details))

\* C7 as amended: on a processor status other than 200/201 the response has
\* error:true and the processor's status; its details are the first 200
\* characters of the raw body when the body is not empty, and the fixed text
\* "Sem resposta" when it is empty.
C7_UpstreamError ==
    UpstreamRefused =>
        /\ IsErrorResponse(resp, upstream.status_code)
        /\ resp.has_details
        /\ IF upstream.text = <<>> THEN resp.details = <<"Sem resposta">>
           ELSE /\ Len(resp.details) = (IF Len(upstream.text) < 200
                                        THEN Len(upstream.text) ELSE 200)
                /\ resp.details = SubSeq(upstream.text, 1, Len(resp.details))

C7_Witness ==
    /\ UpstreamRefused
    /\ Len(upstream.text) > 200
    /\ Len(resp.details) = 200
    /\ resp.http = 202

-----------------------------------------------------------------------------
(* C8 *)

\* check_payment in test mode: 200, success, "paid", no outbound call
CheckTestMode ==
    /\ calls = <<>>
    /\ resp.http = 200 /\ resp.success /\ ~resp.error
    /\ resp.status = Paid

\* exactly one GET, for the id of the request
CheckOneGet ==
    /\ Len(calls) = 1
    /\ calls[1].method = "GET"
    /\ calls[1].id = req.transaction_id

\* C8 as stated: in test mode the answer is 200 success "paid" with no
\* outbound call; with credentials exactly one GET is made and the answer is
\* 200 success with the processor's status when it answers 200, 404 error
\* when it answers another status, 500 error when the call or the JSON
\* parsing raises.
C8_Original ==
    (CheckGet /\ pc = "done") =>
        IF ~Configured THEN CheckTestMode
        ELSE /\ CheckOneGet
             /\ IF upstream.raises \/ (upstream.status_code = 200 /\ upstream.json = "malformed")
                THEN IsErrorResponse(resp, 500)
                ELSE IF upstream.status_code = 200
                THEN /\ resp.http = 200 /\ resp.success /\ ~resp.error
                     /\ resp.status = Get(upstream.status)
                ELSE IsErrorResponse(resp, 404)

\* C8 as amended: as stated, except that a processor answer of 200 gives the
\* 200 success only when its body is a JSON object; when the body is JSON of
\* another type (an array, null) the response is 500 with error:true, as
\* when the call or the JSON parsing raises.
C8_CheckPayment ==
    (CheckGet /\ pc = "done") =>
        IF ~Configured THEN CheckTestMode
        ELSE /\ CheckOneGet
             /\ IF upstream.raises
                   \/ (upstream.status_code = 200 /\ upstream.json \in {"malformed", "nonobject"})
                THEN IsErrorResponse(resp, 500)
                ELSE IF upstream.status_code = 200
                THEN /\ resp.http = 200 /\ resp.success /\ ~resp.error
                     /\ resp.status = Get(upstream.status)
                ELSE IsErrorResponse(resp, 404)

C8_Witness ==
    /\ CheckGet /\ pc = "done" /\ Configured
    /\ upstream.status_code = 201
    /\ resp.http = 404

-----------------------------------------------------------------------------
(* C9 *)

\* handling the request raised: the body or the customer could not be read,
\* the amount or the document had the wrong type, the outbound call raised,
\* or the processor's body could not be read as a JSON object
HandlingRaised ==
    \/ /\ CreatePost /\ Configured
       /\ \/ BodyRaises(req.body)
          \/ /\ req.body.kind = "object" /\ req.body.customer.t = "obj"
             /\ ~Blank(req.body.customer.name) /\ ~Blank(req.body.customer.email)
             /\ \/ req.body.amount.t \in {"null", "str"}
                \/ /\ req.body.amount.t = "absent" \/ req.body.amount.n >= 100
                   /\ req.body.customer.document.t = "num"
    \/ upstream.raises
    \/ /\ CreatePost /\ upstream.status_code \in {200, 201}
       /\ upstream.json \in {"malformed", "nonobject"} \/ upstream.pix.t = "null"
    \/ /\ CheckGet /\ upstream.status_code = 200
       /\ upstream.json \in {"malformed", "nonobject"}

\* C9: no exception leaves create_payment or check_payment and no request
\* gets two responses; a finished request has exactly one response; when
\* handling raised the response is 500; and a response with error:true is a
\* JSON object with a message and without success:true, every other response
\* to a POST or GET being a success.
C9_OneResponse ==
    /\ ~escaped
    /\ responses <= 1
    /\ pc = "done" =>
        /\ responses = 1
        /\ HandlingRaised => IsErrorResponse(resp, 500)
        /\ resp.error => resp.json /\ resp.message # <<>> /\ ~resp.success
        /\ (CreatePost \/ CheckGet) => resp.error # resp.success

C9_Witness ==
    /\ pc = "done" /\ CreatePost /\ calls # <<>>
    /\ upstream.raises
    /\ responses = 1 /\ resp.http = 500 /\ resp.error

-----------------------------------------------------------------------------
(* C10 *)

\* the amount create_payment works with: the supplied one, or 890
EffectiveAmount(body) == IF body.amount.t = "absent" THEN Num(890) ELSE body.amount

\* a 400 of this service, which carries no upstream details
ValidationError(r) == r.http = 400 /\ r.error /\ ~r.has_details

\* C10: at most one outbound call is made for a request; a POST to the
\* processor is made only for a create-payment request with credentials
\* configured, a customer with non-empty name and email and an amount (the
\* supplied one, or 890) of at least 100; the payload's amount is that amount
\* and equals its line item's unitPrice; and a request that ends in a
\* validation error or in the test-mode success has made no outbound call.
C10_ForwardAfterValidation ==
    /\ Len(calls) <= 1
    /\ pc = "post_sent" => Len(calls) = 1
    /\ \A i \in 1..Len(calls) :
        calls[i].method = "POST" =>
            /\ Configured /\ CreatePost
            /\ req.body.kind = "object" /\ req.body.customer.t = "obj"
            /\ ~Blank(req.body.customer.name) /\ ~Blank(req.body.customer.email)
            /\ EffectiveAmount(req.body).t = "num"
            /\ EffectiveAmount(req.body).n >= 100
            /\ calls[i].payload.amount = EffectiveAmount(req.body)
            /\ calls[i].payload.unitPrice = calls[i].payload.amount
            /\ calls[i].payload.quantity = 1
    /\ (CreatePost /\ pc = "done" /\ (ValidationError(resp) \/ resp.test_mode)) => calls = <<>>

C10_Witness ==
    /\ pc = "post_sent" /\ Len(calls) = 1
    /\ calls[1].method = "POST"
    /\ calls[1].payload.amount = Num(5000)
    /\ calls[1].payload.unitPrice = Num(5000)

====
